---- MODULE Spec2Model ----
(***************************************************************************)
(* Camera-mount servo controller (sketches/OpenROV2x/CCameraServo.cpp).    *)
(*                                                                         *)
(* Number representation.  The C++ code mixes uint32_t pulse widths with   *)
(* 32 bit floats.  Floats are modelled as fixed-point integers:            *)
(*   - pulse widths held in a float (m_fCurrentPos_us, error) are counted  *)
(*     in units of 1/FQ microsecond, FQ = 2^13: between 1024 and 2048 the  *)
(*     float32 values are exactly the multiples of 2^-13, so sums and      *)
(*     differences of pulse widths round exactly as the float does;        *)
(*   - angles and angular speeds are counted in 1/DQ degree, DQ = 10^6;    *)
(*   - m_speed_us_per_ms and the quotient error/dt are counted in          *)
(*     1/SQ microsecond per millisecond, SQ = 10^6.                        *)
(* Every product and quotient is rounded to nearest (ties to even) onto    *)
(* the grid of its result, as a float operation rounds its result.         *)
(*                                                                         *)
(* Time.  millis() is unbounded; the state keeps the three differences     *)
(* the code computes from it: the time since each CTimer last fired and    *)
(* the time since m_tLast.                                                 *)
(***************************************************************************)
EXTENDS Integers, Sequences, FiniteSets, TLC

\* ------------------------------------------------------------------ bounds
MaxCmds == 2      \* commands delivered in one run
MaxGap == 10      \* the clock stops once Update has been left uncalled this long (ms)
ClockStep == 5    \* milliseconds that pass between two looks at the clock
MaxStall == 5     \* time (ms) a control tick takes when it is held up
MaxStalls == 1    \* control ticks held up in one run
MaxBoot == 1      \* latest time (ms) at which Initialize is called
MaxConvSteps == 60   \* the converter runs take angles of up to this many steps either way
ConvStep_mdeg == 113 \* size of one such step, in thousandths of a degree
MaxTravel_us == 60 \* the runs stay within kZeroPosMicrosecs +- MaxTravel_us

\* ------------------------------------------------------- fixed-point grids
FQ == 2^13
DQ == 10^6
SQ == 10^6

Abs(x) == IF x < 0 THEN -x ELSE x

\* F applied to the value of v, which is computed once.
Let(v, F(_)) == CHOOSE r \in {F(x) : x \in {v}} : TRUE

\* <<floor(a*b/q), (a*b) mod q>> for a, b >= 0 and q > 0, by long
\* multiplication over the base-256 digits of b, so that no intermediate
\* value leaves 32 bits (a and q stay below 2^23).
RECURSIVE MulDivQR(_, _, _)
MulDivQR(a, b, q) ==
    IF b = 0 THEN <<0, 0>>
    ELSE Let(MulDivQR(a, b \div 256, q), LAMBDA h :
         Let(256 * h[2] + ((a * (b % 256)) % q), LAMBDA r :
             <<256 * h[1] + ((a * (b % 256)) \div q) + (r \div q), r % q>>))

\* a*b/q rounded to nearest, ties to even; the sign is that of a*b.
MulDivRound(a, b, q) ==
    Let(<<a, b>>, LAMBDA ab :
    Let(MulDivQR(Abs(ab[1]), Abs(ab[2]), q), LAMBDA qr :
        LET up  == 2 * qr[2] > q \/ (2 * qr[2] = q /\ qr[1] % 2 = 1)
            mag == IF up THEN qr[1] + 1 ELSE qr[1]
        IN  IF (ab[1] < 0) = (ab[2] < 0) THEN mag ELSE -mag))

\* static_cast of a float to an integer type: truncation toward zero.
TruncDiv(a, q) == IF a >= 0 THEN a \div q ELSE -((-a) \div q)

\* ------------------------------------------------------- program constants
kZeroPosMicrosecs == 1487
kMicrosecPerDegree == 9523809                                 \* 9.523809 * 10^6
kDegPerMicrosec == MulDivRound(10^6, 10^6, kMicrosecPerDegree) \* 1 / 9.523809, * 10^6
kNeutralPosition_deg == 0
kDefaultSpeed == 50 * DQ
ControlPeriod_ms == 5
TelemetryPeriod_ms == 100

\* ---------------------------------------------------------- unit converter
\* A converter centred on the nominal 1.5 ms pulse instead of kZeroPosMicrosecs.
DegreesToMicrosecondsNominal(degreesIn, isInverted) ==
    LET d    == IF isInverted THEN -degreesIn ELSE degreesIn
        prod == MulDivRound(MulDivRound(d, kMicrosecPerDegree, 10^6), FQ, DQ)
    IN  TruncDiv(prod + 1500 * FQ, FQ)

DegreesToMicroseconds(degreesIn, isInverted) ==
    LET d    == IF isInverted THEN -degreesIn ELSE degreesIn
        prod == MulDivRound(MulDivRound(d, kMicrosecPerDegree, 10^6), FQ, DQ)
    IN  TruncDiv(prod + kZeroPosMicrosecs * FQ, FQ)

\* A converter back to degrees that leaves the inversion out.
MicrosecondsToDegreesPlain(microsecondsIn, isInverted) ==
    (microsecondsIn - kZeroPosMicrosecs) * kDegPerMicrosec

MicrosecondsToDegrees(microsecondsIn, isInverted) ==
    LET d == (microsecondsIn - kZeroPosMicrosecs) * kDegPerMicrosec
    IN  IF isInverted THEN -d ELSE d

kNeutralPosition_us == DegreesToMicroseconds(0, FALSE)

\* ------------------------------------------- float <-> int wire conversion
Encode(valueIn) == TruncDiv(valueIn, DQ \div 1000)

Decode(valueIn) == valueIn * (DQ \div 1000)

SpeedUsPerMs(speed_deg_per_s) ==
    MulDivRound(MulDivRound(speed_deg_per_s, 1, 1000), kMicrosecPerDegree, DQ)

\* ------------------------------------------------------------------- state
VARIABLES
    m_targetPos_deg,    \* float, 1/DQ degree
    m_currentPos_deg,   \* float, 1/DQ degree
    m_targetPos_us,     \* uint32_t, microseconds
    m_currentPos_us,    \* uint32_t, microseconds
    m_fCurrentPos_us,   \* float, 1/FQ microsecond
    m_tDelta,           \* uint32_t, milliseconds
    m_speed_deg_per_s,  \* float, 1/DQ degree per second
    m_isInverted,       \* int, 0 or 1
    m_speed_us_per_ms,  \* float, 1/SQ microsecond per millisecond
    OCR1A,              \* timer 1 compare register driving the servo PWM
    initialized,        \* Initialize() has run
    sinceControl,       \* millis() - m_controlTimer's last firing
    sinceTelemetry,     \* millis() - m_telemetryTimer's last firing
    sinceLast,          \* millis() - m_tLast
    serial,             \* what the last Update call printed on Serial
    branch,             \* path of the control tick in the last Update call
    lastCmd,            \* command the last Update call consumed
    nCmds,              \* commands delivered so far
    nStalls             \* control ticks held up so far

vars == <<m_targetPos_deg, m_currentPos_deg, m_targetPos_us, m_currentPos_us,
          m_fCurrentPos_us, m_tDelta, m_speed_deg_per_s, m_isInverted,
          m_speed_us_per_ms, OCR1A, initialized, sinceControl, sinceTelemetry,
          sinceLast, serial, branch, lastCmd, nCmds, nStalls>>

\* ------------------------------------------------------------------ inputs
NoCommand == [name |-> "none", arg |-> 0]
Cmd(name, arg) == [name |-> name, arg |-> arg]

\* Commands of the runs: targets of 0, 0.6 and 1 degree; speeds of 104.999
\* and 150 degrees per second (just below and well above one microsecond per
\* millisecond), of 0 and of -50 degrees per second; every kind of inversion
\* argument; a name the module does not know.
Commands ==
    {Cmd("camServ_tpos", 0), Cmd("camServ_tpos", 600), Cmd("camServ_tpos", 1000),
     Cmd("camServ_spd", 104999), Cmd("camServ_spd", 150000),
     Cmd("camServ_spd", 0), Cmd("camServ_spd", -50000),
     Cmd("camServ_inv", 0), Cmd("camServ_inv", 1), Cmd("camServ_inv", 2),
     Cmd("camServ_other", 1)}

\* Commands of the slow runs: 0.6 degrees, 0.001 degree per second.
SlowCommands ==
    {Cmd("camServ_tpos", 600), Cmd("camServ_spd", 1)}

\* The module's variables as one record, threaded through the steps of Update.
Servo ==
    [targetPos_deg |-> m_targetPos_deg, currentPos_deg |-> m_currentPos_deg,
     targetPos_us |-> m_targetPos_us, currentPos_us |-> m_currentPos_us,
     fCurrentPos_us |-> m_fCurrentPos_us, tDelta |-> m_tDelta,
     speed_deg_per_s |-> m_speed_deg_per_s, isInverted |-> m_isInverted,
     speed_us_per_ms |-> m_speed_us_per_ms, OCR1A |-> OCR1A,
     serial |-> <<>>, branch |-> "none"]

\* ------------------------------------------------------------------- timer
\* CTimer::HasElapsed( msIn ): the period has elapsed since the timer last
\* fired; a timer that fires is re-based to the present.
HasElapsed(since, msIn) == since >= msIn

\* A timer that keeps its backlog: a firing moves its base on by one period.
RebaseByPeriod(since, msIn) ==
    IF HasElapsed(since, msIn) THEN since - msIn ELSE since

Rebase(since, msIn) == IF HasElapsed(since, msIn) THEN 0 ELSE since

\* ------------------------------------------------------ PWM output driver
\* An output driver that forgets the register's half-microsecond unit.
SetServoPositionRaw(microsecondsIn) == microsecondsIn

SetServoPosition(microsecondsIn) == microsecondsIn * 2

\* ------------------------------------------------------- command handling
HandleTpos(s, arg) ==
    LET deg == Decode(arg)
    IN  [s EXCEPT !.serial = Append(@, <<"camServ_tpos", arg>>),
                  !.targetPos_deg = deg,
                  !.targetPos_us = DegreesToMicroseconds(deg, s.isInverted = 1)]

\* A speed handler that turns down speeds that are not positive.
HandleSpdPositive(s, arg) ==
    IF arg > 0
    THEN [s EXCEPT !.serial = Append(@, <<"camServ_spd", arg>>),
                   !.speed_deg_per_s = Decode(arg),
                   !.speed_us_per_ms = SpeedUsPerMs(Decode(arg))]
    ELSE s

HandleSpd(s, arg) ==
    LET spd == Decode(arg)
    IN  [s EXCEPT !.serial = Append(@, <<"camServ_spd", arg>>),
                  !.speed_deg_per_s = spd,
                  !.speed_us_per_ms = SpeedUsPerMs(spd)]

\* An inversion handler that takes every non-zero argument for 1.
HandleInvNonZero(s, arg) ==
    IF arg # 0
    THEN [s EXCEPT !.isInverted = 1, !.serial = Append(@, <<"camServ_inv", 1>>)]
    ELSE [s EXCEPT !.isInverted = 0, !.serial = Append(@, <<"camServ_inv", 0>>)]

HandleInv(s, arg) ==
    IF arg = 1
    THEN [s EXCEPT !.isInverted = 1, !.serial = Append(@, <<"camServ_inv", 1>>)]
    ELSE IF arg = 0
    THEN [s EXCEPT !.isInverted = 0, !.serial = Append(@, <<"camServ_inv", 0>>)]
    ELSE s

\* A dispatch that takes every name it does not know for camServ_tpos.
HandleCommandLax(s, cmd) ==
    IF cmd.name = "camServ_spd" THEN HandleSpd(s, cmd.arg)
    ELSE IF cmd.name = "camServ_inv" THEN HandleInv(s, cmd.arg)
    ELSE IF cmd.name # "none" THEN HandleTpos(s, cmd.arg)
    ELSE s

HandleCommand(s, cmd) ==
    IF cmd.name = "camServ_tpos" THEN HandleTpos(s, cmd.arg)
    ELSE IF cmd.name = "camServ_spd" THEN HandleSpd(s, cmd.arg)
    ELSE IF cmd.name = "camServ_inv" THEN HandleInv(s, cmd.arg)
    ELSE s

\* ------------------------------------------------ motion profile generator
\* m_tDelta = millis() - m_tLast
TickDelta(since) == since

\* ( error / static_cast<float>( m_tDelta ) ) < m_speed_us_per_ms.  With
\* m_tDelta = 0 the float quotient is +infinity, -infinity or NaN.
SnapTest(error, tDelta, speed) ==
    IF tDelta = 0 THEN error < 0
    ELSE MulDivRound(error, SQ, FQ * tDelta) < speed

\* A step with the sign of the increment slipped.
StepAway(fCurrent, speed, error) == fCurrent - MulDivRound(speed, error, SQ)

\* m_fCurrentPos_us += ( m_speed_us_per_ms * error )
StepTo(fCurrent, speed, error) == fCurrent + MulDivRound(speed, error, SQ)

\* A cast that rounds to the nearest integer.
CastRounded(f) == TruncDiv(2 * f + FQ, 2 * FQ)

\* static_cast<uint32_t>( m_fCurrentPos_us ), for a value in uint32_t's range
CastToUint32(f) == TruncDiv(f, FQ)

\* A control tick that runs the position update whether or not the servo
\* is on its target.
ControlTickAlways(s, tDelta) ==
    Let(s.targetPos_us * FQ - s.fCurrentPos_us, LAMBDA error :
    Let(SnapTest(error, tDelta, s.speed_us_per_ms), LAMBDA snap :
    Let(IF snap THEN s.targetPos_us * FQ
        ELSE StepTo(s.fCurrentPos_us, s.speed_us_per_ms, error), LAMBDA f :
    Let(IF snap THEN s.targetPos_us ELSE CastToUint32(f), LAMBDA c :
        [s EXCEPT !.tDelta = tDelta,
                  !.fCurrentPos_us = f,
                  !.currentPos_us = c,
                  !.OCR1A = SetServoPosition(c),
                  !.currentPos_deg = MicrosecondsToDegrees(c, FALSE),
                  !.branch = IF snap THEN "snap" ELSE "step"]))))

ControlTick(s, tDelta) ==
    IF s.currentPos_us # s.targetPos_us
    THEN Let(s.targetPos_us * FQ - s.fCurrentPos_us, LAMBDA error :
         Let(SnapTest(error, tDelta, s.speed_us_per_ms), LAMBDA snap :
         Let(IF snap THEN s.targetPos_us * FQ
             ELSE StepTo(s.fCurrentPos_us, s.speed_us_per_ms, error), LAMBDA f :
         Let(IF snap THEN s.targetPos_us ELSE CastToUint32(f), LAMBDA c :
             [s EXCEPT !.tDelta = tDelta,
                       !.fCurrentPos_us = f,
                       !.currentPos_us = c,
                       !.OCR1A = SetServoPosition(c),
                       !.currentPos_deg = MicrosecondsToDegrees(c, FALSE),
                       !.branch = IF snap THEN "snap" ELSE "step"]))))
    ELSE [s EXCEPT !.tDelta = tDelta, !.branch = "idle"]

\* An Update that runs the control tick before it handles the command.
TickThenCommand(s, cmd, fire, tDelta) ==
    Let(IF fire THEN ControlTick(s, tDelta) ELSE s, LAMBDA s1 :
        HandleCommand(s1, cmd))

\* The pending command, then the control tick if its gate is open.
CommandThenTick(s, cmd, fire, tDelta) ==
    Let(HandleCommand(s, cmd), LAMBDA s1 :
        IF fire THEN ControlTick(s1, tDelta) ELSE s1)

\* --------------------------------------------------------------- telemetry
\* A telemetry step that reports only after the position has moved.
TelemetryWhenMoved(s) ==
    IF s.branch \in {"snap", "step"}
    THEN [s EXCEPT !.serial = Append(@, <<"camServ_pos", Encode(s.currentPos_deg)>>)]
    ELSE s

Telemetry(s) ==
    [s EXCEPT !.serial = Append(@, <<"camServ_pos", Encode(s.currentPos_deg)>>)]

InRange(f) == Abs(f - kZeroPosMicrosecs * FQ) <= MaxTravel_us * FQ

\* ----------------------------------------------------------------- actions
Init ==
    /\ m_targetPos_deg = kNeutralPosition_deg
    /\ m_currentPos_deg = kNeutralPosition_deg
    /\ m_targetPos_us = kNeutralPosition_us
    /\ m_currentPos_us = kNeutralPosition_us
    /\ m_fCurrentPos_us = kZeroPosMicrosecs * FQ
    /\ m_tDelta = 0
    /\ m_speed_deg_per_s = kDefaultSpeed
    /\ m_isInverted = 0
    /\ m_speed_us_per_ms = SpeedUsPerMs(kDefaultSpeed)
    /\ OCR1A = 0
    /\ initialized = FALSE
    /\ sinceControl = 0
    /\ sinceTelemetry = 0
    /\ sinceLast = 0
    /\ serial = <<>>
    /\ branch = "none"
    /\ lastCmd = NoCommand
    /\ nCmds = 0
    /\ nStalls = 0

Initialize ==
    /\ ~initialized
    /\ initialized' = TRUE
    /\ OCR1A' = SetServoPosition(kNeutralPosition_us)
    /\ sinceControl' = 0
    /\ sinceTelemetry' = 0
    /\ UNCHANGED <<m_targetPos_deg, m_currentPos_deg, m_targetPos_us,
                   m_currentPos_us, m_fCurrentPos_us, m_tDelta,
                   m_speed_deg_per_s, m_isInverted, m_speed_us_per_ms,
                   sinceLast, serial, branch, lastCmd, nCmds, nStalls>>

\* Time passes outside Update: one millisecond at a time before Initialize,
\* ClockStep milliseconds at a time after it.
ClockTick ==
    /\ IF initialized THEN sinceControl < MaxGap ELSE sinceLast < MaxBoot
    /\ sinceLast' = IF initialized THEN sinceLast + ClockStep ELSE sinceLast + 1
    /\ sinceControl' = IF initialized THEN sinceControl + ClockStep ELSE sinceControl
    /\ sinceTelemetry' = IF initialized THEN sinceTelemetry + ClockStep ELSE sinceTelemetry
    /\ UNCHANGED <<m_targetPos_deg, m_currentPos_deg, m_targetPos_us,
                   m_currentPos_us, m_fCurrentPos_us, m_tDelta,
                   m_speed_deg_per_s, m_isInverted, m_speed_us_per_ms, OCR1A,
                   initialized, serial, branch, lastCmd, nCmds, nStalls>>

\* CCameraServo::Update: the pending command if any, then the control tick if
\* its gate is open (stall milliseconds pass in it, between the gate and the
\* m_tLast = millis() that ends it), then the telemetry if its gate is open.
Update(cmd, stall) ==
    LET fire == HasElapsed(sinceControl, ControlPeriod_ms)
        tTel == sinceTelemetry + stall
        tele == HasElapsed(tTel, TelemetryPeriod_ms)
    IN  /\ initialized
        /\ cmd # NoCommand => nCmds < MaxCmds
        /\ stall > 0 => fire /\ nStalls < MaxStalls
        /\ \E s2 \in {CommandThenTick(Servo, cmd, fire, TickDelta(sinceLast))} :
           \E s3 \in {IF tele THEN Telemetry(s2) ELSE s2} :
              /\ InRange(s3.fCurrentPos_us)
              /\ m_targetPos_deg' = s3.targetPos_deg
              /\ m_currentPos_deg' = s3.currentPos_deg
              /\ m_targetPos_us' = s3.targetPos_us
              /\ m_currentPos_us' = s3.currentPos_us
              /\ m_fCurrentPos_us' = s3.fCurrentPos_us
              /\ m_tDelta' = s3.tDelta
              /\ m_speed_deg_per_s' = s3.speed_deg_per_s
              /\ m_isInverted' = s3.isInverted
              /\ m_speed_us_per_ms' = s3.speed_us_per_ms
              /\ OCR1A' = s3.OCR1A
              /\ serial' = s3.serial
              /\ branch' = s3.branch
        /\ sinceControl' = Rebase(sinceControl, ControlPeriod_ms) + stall
        /\ sinceLast' = IF fire THEN 0 ELSE sinceLast
        /\ sinceTelemetry' = Rebase(tTel, TelemetryPeriod_ms)
        /\ lastCmd' = cmd
        /\ nCmds' = IF cmd = NoCommand THEN nCmds ELSE nCmds + 1
        /\ nStalls' = IF stall > 0 THEN nStalls + 1 ELSE nStalls
        /\ UNCHANGED initialized

Stalls == {0, MaxStall}

Next ==
    \/ Initialize
    \/ ClockTick
    \/ \E cmd \in Commands \cup {NoCommand}, stall \in Stalls : Update(cmd, stall)

NextSlow ==
    \/ Initialize
    \/ ClockTick
    \/ \E cmd \in SlowCommands \cup {NoCommand}, stall \in Stalls : Update(cmd, stall)

Spec == Init /\ [][Next]_vars

\* The slow runs under the scheduling the firmware's main loop gives: time
\* passes, Initialize is called, and Update keeps being called.
FairSlow ==
    /\ Init /\ [][NextSlow]_vars
    /\ WF_vars(Initialize)
    /\ WF_vars(ClockTick)
    /\ WF_vars(Update(NoCommand, 0))

\* ================================================================== claims

\* C1 (as claimed): with a positive speed cap and no further commands, the
\* control ticks bring m_currentPos_us to m_targetPos_us and keep it there.
\* Every speed of the slow runs is positive and their commands run out.
Convergence ==
    <>[](m_speed_us_per_ms > 0) => <>[](m_currentPos_us = m_targetPos_us)

\* C2 (as claimed): no step of the program takes m_currentPos_us across the
\* target the control tick read: from below the target it ends at or below
\* it, from above it ends at or above it.
NoOvershoot ==
    [][/\ m_currentPos_us < m_targetPos_us' => m_currentPos_us' <= m_targetPos_us'
       /\ m_currentPos_us > m_targetPos_us' => m_currentPos_us' >= m_targetPos_us']_vars

\* C3 (as claimed): m_targetPos_us is the image of m_targetPos_deg under the
\* current m_isInverted, in every state.
TargetInSync ==
    m_targetPos_us = DegreesToMicroseconds(m_targetPos_deg, m_isInverted = 1)

\* ------------------------------------------------- steps of the properties
\* The step is an Update call whose control gate was open: only such a step
\* starts from an elapsed control period and ends with m_tLast at the present.
TickRan ==
    initialized /\ HasElapsed(sinceControl, ControlPeriod_ms) /\ sinceLast' = 0

\* The step is an Update call, or changes nothing.
UpdateCalled == initialized /\ sinceLast' <= sinceLast

\* The step is the Update call that consumed cmd.
Delivered(cmd) == initialized /\ nCmds' = nCmds + 1 /\ lastCmd' = cmd

\* The error a control tick of the step computes: the target after the
\* step's command, less the precise position before the step.
TickError == m_targetPos_us' * FQ - m_fCurrentPos_us

\* The camServ_pos lines among what the step printed.
TelemetryLines == {i \in 1..Len(serial') : serial'[i][1] = "camServ_pos"}

\* C4: a camServ_inv command with an argument other than 0 or 1 changes no
\* field (what the control tick of the same call does apart) and prints no
\* acknowledgement; with 0 or 1 it sets m_isInverted to the argument and
\* prints camServ_inv with that value, and changes no other command setting.
InversionArgument ==
    [][\A cmd \in Commands :
          cmd.name = "camServ_inv" /\ Delivered(cmd) =>
             IF cmd.arg \in {0, 1}
             THEN /\ m_isInverted' = cmd.arg
                  /\ Len(serial') > 0
                  /\ Head(serial') = <<"camServ_inv", cmd.arg>>
                  /\ UNCHANGED <<m_targetPos_deg, m_targetPos_us,
                                 m_speed_deg_per_s, m_speed_us_per_ms>>
             ELSE /\ UNCHANGED <<m_isInverted, m_targetPos_deg, m_targetPos_us,
                                 m_speed_deg_per_s, m_speed_us_per_ms>>
                  /\ \A i \in 1..Len(serial') : serial'[i][1] # "camServ_inv"
                  /\ ~TickRan => UNCHANGED <<m_currentPos_us, m_fCurrentPos_us,
                                             m_currentPos_deg, m_tDelta, OCR1A>>]_vars

\* C4, its case: camServ_inv:2 was delivered to an inverted servo, which is
\* still inverted.
InvalidInversionSeen ==
    lastCmd = Cmd("camServ_inv", 2) /\ m_isInverted = 1 /\ serial = <<>>

\* C5: the command of an Update call is applied in full before the control
\* tick of the same call: both fields the command sets are set, and the tick
\* takes its branch and its new position from the target and the speed the
\* command has left.
CommandBeforeTick ==
    [][/\ \A cmd \in Commands :
            Delivered(cmd) =>
               /\ cmd.name = "camServ_tpos" =>
                     /\ m_targetPos_deg' = Decode(cmd.arg)
                     /\ m_targetPos_us' =
                           DegreesToMicroseconds(Decode(cmd.arg), m_isInverted' = 1)
               /\ cmd.name = "camServ_spd" =>
                     /\ m_speed_deg_per_s' = Decode(cmd.arg)
                     /\ m_speed_us_per_ms' = SpeedUsPerMs(Decode(cmd.arg))
               /\ cmd.name = "camServ_inv" /\ cmd.arg \in {0, 1} =>
                     m_isInverted' = cmd.arg
       /\ TickRan =>
            IF m_currentPos_us = m_targetPos_us'
            THEN branch' = "idle" /\ UNCHANGED <<m_currentPos_us, m_fCurrentPos_us>>
            ELSE IF SnapTest(TickError, m_tDelta', m_speed_us_per_ms')
            THEN /\ branch' = "snap"
                 /\ m_currentPos_us' = m_targetPos_us'
                 /\ m_fCurrentPos_us' = m_targetPos_us' * FQ
            ELSE /\ branch' = "step"
                 /\ m_fCurrentPos_us' =
                       StepTo(m_fCurrentPos_us, m_speed_us_per_ms', TickError)
                 /\ m_currentPos_us' = CastToUint32(m_fCurrentPos_us')]_vars

\* C5, its case: one Update call acknowledged camServ_tpos:600 and its
\* control tick stepped towards the new target.
CommandAndTickSeen ==
    /\ branch = "step"
    /\ Len(serial) > 0
    /\ Head(serial) = <<"camServ_tpos", 600>>
    /\ m_currentPos_us > kZeroPosMicrosecs

\* C6 (as claimed): no control tick evaluates error / m_tDelta with
\* m_tDelta = 0.
ZeroDtGuarded == branch \in {"snap", "step"} => m_tDelta > 0

\* C7: in an Update call the control tick runs exactly when its period has
\* elapsed since its timer last fired, and the telemetry line is printed at
\* most once and only when its own period has elapsed; a tick that took no
\* time leaves the control timer at the present, whatever backlog it had, and
\* a printed telemetry line leaves the telemetry timer at the present.
RateGates ==
    [][UpdateCalled =>
          /\ branch' # "none" <=> HasElapsed(sinceControl, ControlPeriod_ms)
          /\ branch' # "none" /\ nStalls' = nStalls => sinceControl' = 0
          /\ branch' = "none" => sinceControl' = sinceControl
          /\ Cardinality(TelemetryLines) <= 1
          /\ TelemetryLines # {} <=>
                HasElapsed(sinceTelemetry + MaxStall * (nStalls' - nStalls),
                           TelemetryPeriod_ms)
          /\ TelemetryLines # {} => sinceTelemetry' = 0
          /\ TelemetryLines = {} =>
                sinceTelemetry' = sinceTelemetry + MaxStall * (nStalls' - nStalls)]_vars

\* C7, its case: Update was left uncalled for two control periods and then
\* ran one control tick, which left the control timer at the present.
CatchUpSeen ==
    /\ branch # "none"
    /\ m_tDelta >= 2 * ControlPeriod_ms
    /\ sinceControl = 0
    /\ sinceLast = 0

\* C8 (as claimed): after a control tick m_currentPos_us is m_fCurrentPos_us
\* rounded to the nearest integer.
RoundedAfterTick ==
    branch # "none" =>
       m_currentPos_us = (2 * m_fCurrentPos_us + FQ) \div (2 * FQ)

\* C8 (amended): after a control tick m_currentPos_us is m_fCurrentPos_us
\* truncated towards zero.
TruncatedAfterTick ==
    branch # "none" => m_currentPos_us = TruncDiv(m_fCurrentPos_us, FQ)

\* C8, its case: a stepping tick left a precise position whose fraction is a
\* half or more.
FractionAboveHalfSeen ==
    branch = "step" /\ 2 * (m_fCurrentPos_us % FQ) >= FQ

\* C9 (as claimed): a control tick away from the target, with m_tDelta > 0,
\* snaps exactly when |error| / m_tDelta < m_speed_us_per_ms; a snap leaves
\* both positions on the target, and otherwise the tick steps.
SnapIffWithinCap ==
    [][TickRan /\ m_currentPos_us # m_targetPos_us' /\ m_tDelta' > 0 =>
          /\ branch' = "snap" <=>
                MulDivRound(Abs(TickError), SQ, FQ * m_tDelta') < m_speed_us_per_ms'
          /\ branch' = "snap" =>
                /\ m_currentPos_us' = m_targetPos_us'
                /\ m_fCurrentPos_us' = m_targetPos_us' * FQ
          /\ branch' # "snap" => branch' = "step"]_vars

\* The step is a control tick below the target, with a speed between 0 and 1
\* microsecond per millisecond that the error over m_tDelta does not undercut.
CappedTick ==
    /\ TickRan
    /\ m_currentPos_us < m_targetPos_us'
    /\ m_speed_us_per_ms' > 0
    /\ m_speed_us_per_ms' < SQ
    /\ m_tDelta' > 0
    /\ ~(MulDivRound(TickError, SQ, FQ * m_tDelta') < m_speed_us_per_ms')

ConvArgs == {i * ConvStep_mdeg : i \in -MaxConvSteps..MaxConvSteps}

ConvInit ==
    /\ m_targetPos_deg \in {Decode(a) : a \in ConvArgs}
    /\ m_isInverted \in {0, 1}
    /\ m_currentPos_deg = kNeutralPosition_deg
    /\ m_targetPos_us = kNeutralPosition_us
    /\ m_currentPos_us = kNeutralPosition_us
    /\ m_fCurrentPos_us = kZeroPosMicrosecs * FQ
    /\ m_tDelta = 0
    /\ m_speed_deg_per_s = kDefaultSpeed
    /\ m_speed_us_per_ms = SpeedUsPerMs(kDefaultSpeed)
    /\ OCR1A = 0
    /\ initialized = FALSE
    /\ sinceControl = 0
    /\ sinceTelemetry = 0
    /\ sinceLast = 0
    /\ serial = <<>>
    /\ branch = "none"
    /\ lastCmd = NoCommand
    /\ nCmds = 0
    /\ nStalls = 0

ToActuationUnits ==
    /\ branch = "none"
    /\ m_targetPos_us' = DegreesToMicroseconds(m_targetPos_deg, m_isInverted = 1)
    /\ branch' = "actuation"
    /\ UNCHANGED <<m_targetPos_deg, m_currentPos_deg, m_currentPos_us,
                   m_fCurrentPos_us, m_tDelta, m_speed_deg_per_s, m_isInverted,
                   m_speed_us_per_ms, OCR1A, initialized, sinceControl,
                   sinceTelemetry, sinceLast, serial, lastCmd, nCmds, nStalls>>

ToAngleUnits ==
    /\ branch = "actuation"
    /\ m_currentPos_deg' = MicrosecondsToDegrees(m_targetPos_us, m_isInverted = 1)
    /\ branch' = "angle"
    /\ UNCHANGED <<m_targetPos_deg, m_targetPos_us, m_currentPos_us,
                   m_fCurrentPos_us, m_tDelta, m_speed_deg_per_s, m_isInverted,
                   m_speed_us_per_ms, OCR1A, initialized, sinceControl,
                   sinceTelemetry, sinceLast, serial, lastCmd, nCmds, nStalls>>

ConvNext == ToActuationUnits \/ ToAngleUnits

ConvSpec == ConvInit /\ [][ConvNext]_vars

\* C11: an angle of 0 maps to kZeroPosMicrosecs with and without inversion;
\* the servo starts with both pulse widths there, and a camServ_tpos command
\* with an angle of 0 sets m_targetPos_us there whatever m_isInverted is.
NeutralMapping ==
    /\ DegreesToMicroseconds(0, FALSE) = kZeroPosMicrosecs
    /\ DegreesToMicroseconds(0, TRUE) = kZeroPosMicrosecs
    /\ m_targetPos_us = kZeroPosMicrosecs /\ m_currentPos_us = kZeroPosMicrosecs
    /\ [][Delivered(Cmd("camServ_tpos", 0)) =>
             /\ m_targetPos_deg' = 0
             /\ m_targetPos_us' = kZeroPosMicrosecs]_vars

\* C11, its case: camServ_tpos:0 was delivered to an inverted servo, and the
\* target is on kZeroPosMicrosecs.
NeutralWhileInvertedSeen ==
    /\ Len(serial) > 0
    /\ Head(serial) = <<"camServ_tpos", 0>>
    /\ m_isInverted = 1
    /\ m_targetPos_us = kZeroPosMicrosecs

\* The tolerance of the float comparisons: a thousandth of a degree.
FloatTolerance == DQ \div 1000

TelemetryUnconditional ==
    [][/\ UpdateCalled
       /\ HasElapsed(sinceTelemetry + MaxStall * (nStalls' - nStalls),
                     TelemetryPeriod_ms)
       => /\ Cardinality(TelemetryLines) = 1
          /\ serial'[Len(serial')] = <<"camServ_pos", Encode(m_currentPos_deg')>>]_vars

\* C13, its case: an Update call without a command, whose control tick found
\* the servo on its target, printed the position.
TelemetryWhileIdleSeen ==
    /\ branch = "idle"
    /\ lastCmd = NoCommand
    /\ Len(serial) = 1
    /\ serial[1][1] = "camServ_pos"

\* C14 (as claimed): after a control tick that moved the servo,
\* m_currentPos_deg is the angle of m_currentPos_us under the current
\* m_isInverted.
AngleFollowsInversion ==
    branch \in {"snap", "step"} =>
       m_currentPos_deg = MicrosecondsToDegrees(m_currentPos_us, m_isInverted = 1)

\* C15 (as claimed): a control tick that starts off the target and ends on it
\* took the snap branch, and leaves m_fCurrentPos_us on the target as well.
OnlySnapReachesTarget ==
    [][/\ TickRan
       /\ m_currentPos_us # m_targetPos_us'
       /\ m_currentPos_us' = m_targetPos_us'
       => /\ branch' = "snap"
          /\ m_fCurrentPos_us' = m_targetPos_us' * FQ]_vars

\* C16: a control tick that finds the servo on its target takes neither
\* branch of the position update, so it leaves both positions, the angle and
\* the output register alone; it records the elapsed time and the present.
IdleTickNoOp ==
    [][TickRan /\ m_currentPos_us = m_targetPos_us' =>
          /\ branch' = "idle"
          /\ UNCHANGED <<m_currentPos_us, m_fCurrentPos_us, m_currentPos_deg, OCR1A>>
          /\ m_tDelta' = TickDelta(sinceLast)
          /\ sinceLast' = 0]_vars

\* C16, its case: a control tick found the servo on a target away from
\* neutral, a full period after the tick before.
IdleTickSeen ==
    /\ branch = "idle"
    /\ m_tDelta >= ControlPeriod_ms
    /\ m_currentPos_us = m_targetPos_us
    /\ m_currentPos_us # kZeroPosMicrosecs

\* C17: m_speed_us_per_ms is ( m_speed_deg_per_s * 0.001 ) * kMicrosecPerDegree
\* at the start and after every step; a camServ_spd command stores the speed
\* it decodes, be it zero or negative, and no other step changes either
\* speed.
SpeedCacheInSync ==
    /\ m_speed_us_per_ms = SpeedUsPerMs(m_speed_deg_per_s)
    /\ [][/\ m_speed_us_per_ms' = SpeedUsPerMs(m_speed_deg_per_s')
          /\ \A cmd \in Commands :
                cmd.name = "camServ_spd" /\ Delivered(cmd) =>
                   m_speed_deg_per_s' = Decode(cmd.arg)
          /\ lastCmd'.name # "camServ_spd" \/ nCmds' = nCmds =>
                UNCHANGED <<m_speed_deg_per_s, m_speed_us_per_ms>>]_vars

\* C17, its case: camServ_spd:-50000 was delivered and both speeds are
\* negative.
NegativeSpeedSeen ==
    /\ lastCmd = Cmd("camServ_spd", -50000)
    /\ m_speed_deg_per_s = Decode(-50000)
    /\ m_speed_us_per_ms < 0

\* C18: once Initialize has run, the output register holds twice
\* m_currentPos_us.
OutputMirrorsPosition == initialized => OCR1A = 2 * m_currentPos_us

\* C18, its case: a control tick has stepped the servo away from neutral.
OutputAfterStepSeen ==
    /\ initialized
    /\ branch = "step"
    /\ m_currentPos_us # kZeroPosMicrosecs

\* C19: no step but a control tick changes the positions and the angle; the
\* Update call that consumes a command, its control tick apart, leaves the
\* output and the timing alone; camServ_tpos alone changes the target,
\* camServ_spd alone the speeds, camServ_inv alone m_isInverted, and a command
\* of another name changes none of them and is not acknowledged.
CommandFrame ==
    [][/\ ~TickRan =>
             UNCHANGED <<m_currentPos_us, m_fCurrentPos_us, m_currentPos_deg>>
       /\ \A cmd \in Commands :
             Delivered(cmd) =>
                /\ ~TickRan => UNCHANGED <<OCR1A, m_tDelta, sinceLast, sinceControl>>
                /\ cmd.name # "camServ_tpos" =>
                      UNCHANGED <<m_targetPos_deg, m_targetPos_us>>
                /\ cmd.name # "camServ_spd" =>
                      UNCHANGED <<m_speed_deg_per_s, m_speed_us_per_ms>>
                /\ cmd.name # "camServ_inv" => UNCHANGED m_isInverted
                /\ cmd.name \notin {"camServ_tpos", "camServ_spd", "camServ_inv"} =>
                      \A i \in 1..Len(serial') : serial'[i][1] = "camServ_pos"]_vars

\* C19, its case: a command of an unknown name was consumed by an Update call
\* that ran no control tick and printed nothing.
UnknownCommandSeen ==
    /\ lastCmd = Cmd("camServ_other", 1)
    /\ branch = "none"
    /\ serial = <<>>
    /\ m_targetPos_us # kZeroPosMicrosecs

====
